---- MODULE Spec2Model ----
(***************************************************************************)
(* Priority task queue of src/unnamed/part_003 (createTaskQueue): a        *)
(* pending array q scanned with an aging score, a pump that dispatches up  *)
(* to `concurrency` records, and per-task promises with a cancel closure.  *)
(*                                                                         *)
(* Time is counted in clock units of 100 ms, so the default agingMs of 200 *)
(* is 2 units.  The code reads Date.now() in two places only: enqueue      *)
(* stores it as item.enqueuedAt and score subtracts that from the current  *)
(* reading.  The model keeps the difference, waited = Date.now() -         *)
(* item.enqueuedAt, in each pending record: it is 0 at enqueue and every   *)
(* clock unit adds 1 to it.  A wait of PriorityLow * agingMs or more gives *)
(* score 0 for every priority, so waited is kept up to that value, which   *)
(* lets the clock run without end in a finite state space.                 *)
(* Array indices are 1-based here: index 0 stands for the source's -1.     *)
(*                                                                         *)
(* The promise chain of a dispatched record runs in separate jobs of the   *)
(* JavaScript job queue; each job is one action:                           *)
(*   dispatched --InvokeRun--> running --Complete--> completed             *)
(*              --SettleResult--> settled --Finally--> done                *)
(* Calls of enqueue(), cancel() and clock ticks interleave between jobs.   *)
(***************************************************************************)
EXTENDS Integers, Sequences, FiniteSets

\* ---------------------------------------------------------------- bounds
MaxTasks == 3          \* enqueue() calls per run
MaxAging == 2          \* PickSpec: agingMs ranges over 1..MaxAging
MaxPriority == 3       \* priorities 0..MaxPriority given to score in C14

\* ------------------------------------------------------------- constants
PriorityHigh == 0
PriorityNormal == 1
PriorityLow == 2
DefaultAgingMs == 2        \* agingMs = 200, in clock units of 100 ms
DefaultConcurrency == 2    \* concurrency = 2

Priority == {PriorityHigh, PriorityNormal, PriorityLow}
Ids == 1..MaxTasks

VARIABLES
  concurrency,   \* createTaskQueue option
  agingMs,       \* createTaskQueue option
  running,       \* let running
  idSeq,         \* let idSeq
  q,             \* const q: sequence of [id, priority, waited]
  canceled,      \* item.canceled, by id
  phase,         \* by id: where the record / its promise chain stands
  work,          \* by id: how item.run() ended: "none", "ok", "fail"
  outcome,       \* by id: state of the promise p returned by enqueue
  started,       \* history, by id: times pump dispatched the record
  invoked,       \* history, by id: times item.run() was called
  cancelAt,      \* history, by id: where the record stood at its first cancel()
  picked,        \* history of PickSpec: the records spliced out of q, in order
  clock,         \* DemoSpec: time since main() started
  left,          \* DemoSpec, by id: time left of the job's sleep(ms)
  callable,      \* ConfigSpec, by id: is the `run` given to enqueue a function
  other          \* TwoSpec: the closure state of the second queue instance

vars == <<concurrency, agingMs, running, idSeq, q, canceled, phase, work,
          outcome, started, invoked, cancelAt, picked, clock, left, callable,
          other>>

\* what Spec and LiveSpec leave as Init sets it
aux == <<picked, clock, left, callable, other>>

Max(a, b) == IF a >= b THEN a ELSE b
Min(a, b) == IF a <= b THEN a ELSE b

\* --------------------------------------------------------- pickNextIndex
\* score without aging: the priority alone
scoreNoAging(item, aging) == item.priority

\* score without the Math.max(0, ...) clamp
scoreUnclamped(item, aging) == item.priority - (item.waited \div aging)

\* score whose boost is added to the priority
scoreAgingUp(item, aging) == Max(0, item.priority + (item.waited \div aging))

\* score(item, now): Math.max(0, item.priority - Math.floor(waited / agingMs))
\* (item.waited stands for now - item.enqueuedAt)
score(item, aging) ==
  LET waited == item.waited
      boost == waited \div aging
  IN Max(0, item.priority - boost)

\* the for loop with `s <= bestScore`: the last minimal record wins
RECURSIVE scanBestLast(_, _, _, _, _)
scanBestLast(qq, aging, i, bestIdx, bestScore) ==
  IF i > Len(qq) THEN bestIdx
  ELSE LET s == score(qq[i], aging) IN
       IF s <= bestScore THEN scanBestLast(qq, aging, i + 1, i, s)
       ELSE scanBestLast(qq, aging, i + 1, bestIdx, bestScore)

\* the for loop with `s > bestScore`: a record with the greatest score wins
RECURSIVE scanBestWorst(_, _, _, _, _)
scanBestWorst(qq, aging, i, bestIdx, bestScore) ==
  IF i > Len(qq) THEN bestIdx
  ELSE LET s == score(qq[i], aging) IN
       IF s > bestScore THEN scanBestWorst(qq, aging, i + 1, i, s)
       ELSE scanBestWorst(qq, aging, i + 1, bestIdx, bestScore)

\* the for loop of pickNextIndex from index i on: strict <, so the first
\* record with the minimal score wins
RECURSIVE scanBest(_, _, _, _, _)
scanBest(qq, aging, i, bestIdx, bestScore) ==
  IF i > Len(qq) THEN bestIdx
  ELSE LET s == score(qq[i], aging) IN
       IF s < bestScore THEN scanBest(qq, aging, i + 1, i, s)
       ELSE scanBest(qq, aging, i + 1, bestIdx, bestScore)

pickNextIndex(qq, aging) ==
  IF Len(qq) = 0 THEN 0
  ELSE scanBest(qq, aging, 2, 1, score(qq[1], aging))

\* splice that leaves the record in the array (q[idx] read without removal)
spliceKeep(qq, idx) == qq

\* q.splice(idx, 1): q without its idx-th record
splice(qq, idx) ==
  [k \in 1..(Len(qq) - 1) |-> IF k < idx THEN qq[k] ELSE qq[k + 1]]

\* ------------------------------------------------------------------ pump
\* a skip that counts the dropped record as running
pumpSkipCount(st, item, rest) ==
  [q |-> rest, running |-> st.running + 1, disp |-> st.disp,
   drop |-> st.drop \cup {item.id}]

\* One state of the while loop: the pending array, the running count, the
\* ids dispatched so far (in order) and the canceled ids dropped so far.
pumpSkip(st, item, rest) ==
  [q |-> rest, running |-> st.running, disp |-> st.disp,
   drop |-> st.drop \cup {item.id}]

pumpStart(st, item, rest) ==
  [q |-> rest, running |-> st.running + 1, disp |-> Append(st.disp, item.id),
   drop |-> st.drop]

\* loop body without the `if (item.canceled) continue` test
pumpStepNoCheck(st, idx, flags) ==
  pumpStart(st, st.q[idx], splice(st.q, idx))

\* one iteration of the loop body after a record was picked
pumpStep(st, idx, flags) ==
  LET item == st.q[idx]
      rest == splice(st.q, idx)
  IN IF flags[item.id] THEN pumpSkip(st, item, rest)
     ELSE pumpStart(st, item, rest)

\* pump whose loop test is `running <= concurrency`
RECURSIVE pumpLoopOff(_, _, _, _)
pumpLoopOff(st, limit, aging, flags) ==
  IF ~(st.running <= limit) THEN st
  ELSE LET idx == pickNextIndex(st.q, aging) IN
       IF idx = 0 THEN st
       ELSE pumpLoopOff(pumpStep(st, idx, flags), limit, aging, flags)

RECURSIVE pumpLoop(_, _, _, _)
pumpLoop(st, limit, aging, flags) ==
  IF ~(st.running < limit) THEN st
  ELSE LET idx == pickNextIndex(st.q, aging) IN
       IF idx = 0 THEN st
       ELSE pumpLoop(pumpStep(st, idx, flags), limit, aging, flags)

pump(qq, r, limit, aging, flags) ==
  pumpLoop([q |-> qq, running |-> r, disp |-> <<>>, drop |-> {}],
           limit, aging, flags)

\* number of times id i occurs in the sequence s
Count(s, i) == Cardinality({k \in 1..Len(s) : s[k] = i})

\* the effect of a pump pass on the per-id state
ApplyPump(res, ph) ==
  /\ q' = res.q
  /\ running' = res.running
  /\ phase' = [i \in DOMAIN ph |->
                 IF Count(res.disp, i) > 0 THEN "dispatched"
                 ELSE IF i \in res.drop THEN "dropped"
                 ELSE ph[i]]
  /\ started' = [i \in DOMAIN started |-> started[i] + Count(res.disp, i)]

\* --------------------------------------------------------------- promise
\* a result that every resolve / reject call overwrites
settleLast(cur, new) == new

\* resolve / reject of the promise p: only the first call settles it
settle(cur, new) == IF cur = "pending" THEN new ELSE cur

\* a chain that resolves the promise whatever way the work unit ended
resultOfFulfil(w) == "fulfilled"

\* .then(item.resolve, item.reject): what the chain delivers for a work unit
\* that ended as w
resultOf(w) == IF w = "ok" THEN "fulfilled" ELSE "rejected"

\* ------------------------------------------------------------------ Init
Init ==
  /\ concurrency \in 1..DefaultConcurrency
  /\ agingMs = DefaultAgingMs
  /\ running = 0
  /\ idSeq = 1
  /\ q = <<>>
  /\ canceled = [i \in Ids |-> FALSE]
  /\ phase = [i \in Ids |-> "none"]
  /\ work = [i \in Ids |-> "none"]
  /\ outcome = [i \in Ids |-> "none"]
  /\ started = [i \in Ids |-> 0]
  /\ invoked = [i \in Ids |-> 0]
  /\ cancelAt = [i \in Ids |-> "never"]
  /\ picked = <<>>
  /\ clock = 0
  /\ left = [i \in Ids |-> 0]
  /\ callable = [i \in Ids |-> TRUE]
  /\ other = <<>>

\* --------------------------------------------------------------- actions
\* enqueue that pushes the record and does not call pump()
enqueueNoPump(p, next) ==
  /\ LET id == idSeq
         item == [id |-> id, priority |-> p, waited |-> 0]
         res == [q |-> Append(q, item), running |-> running, disp |-> <<>>,
                 drop |-> {}]
     IN /\ idSeq' = next
        /\ outcome' = [outcome EXCEPT ![id] = "pending"]
        /\ ApplyPump(res, [phase EXCEPT ![id] = "queued"])
  /\ UNCHANGED <<aux, concurrency, agingMs, canceled, work, invoked,
                 cancelAt>>

\* enqueue(run, {priority}): new record, q.push(item), pump(); `next` is
\* the value idSeq is left with
enqueue(p, next) ==
  /\ LET id == idSeq
         item == [id |-> id, priority |-> p, waited |-> 0]
         res == pump(Append(q, item), running, concurrency, agingMs, canceled)
     IN /\ idSeq' = next
        /\ outcome' = [outcome EXCEPT ![id] = "pending"]
        /\ ApplyPump(res, [phase EXCEPT ![id] = "queued"])
  /\ UNCHANGED <<aux, concurrency, agingMs, canceled, work, invoked,
                 cancelAt>>

\* at most MaxTasks calls of enqueue() in a run
EnqueueStep(p, next) ==
  /\ idSeq <= MaxTasks
  /\ enqueue(p, next)

\* enqueue that reads idSeq without incrementing it
EnqueueSameId(p) == EnqueueStep(p, idSeq)

\* const id = idSeq++
Enqueue(p) == EnqueueStep(p, idSeq + 1)

\* where a record stands for a cancel() call: still in the pending array,
\* dispatched with its result not yet delivered, or past the delivery
stage(ph) ==
  IF ph = "queued" THEN "pending"
  ELSE IF ph \in {"dispatched", "running", "completed"} THEN "inflight"
  ELSE "settled"

\* the scheduler state a handler reads and writes, as one record
Cur ==
  [running |-> running, idSeq |-> idSeq, q |-> q, canceled |-> canceled,
   phase |-> phase, work |-> work, outcome |-> outcome]

\* cancel that rejects only while the record is in the pending array
cancelPendingOnly(st, i) ==
  [st EXCEPT !.canceled[i] = TRUE,
             !.outcome[i] = IF st.phase[i] = "queued"
                            THEN settle(st.outcome[i], "canceled")
                            ELSE st.outcome[i]]

\* cancel that also gives back the slot of a dispatched record
cancelReleaseSlot(st, i) ==
  [st EXCEPT !.canceled[i] = TRUE,
             !.outcome[i] = settle(st.outcome[i], "canceled"),
             !.running = IF stage(st.phase[i]) = "inflight"
                         THEN st.running - 1 ELSE st.running]

\* cancel that sets the flag and leaves the promise to the next pump pass
cancelFlagOnly(st, i) == [st EXCEPT !.canceled[i] = TRUE]

\* cancel that also takes the record out of the pending array
cancelDequeue(st, i) ==
  [st EXCEPT !.canceled[i] = TRUE,
             !.outcome[i] = settle(st.outcome[i], "canceled"),
             !.q = SelectSeq(st.q, LAMBDA r : r.id # i)]

\* the cancel closure of task i: item.canceled = true; reject(CancelError)
cancel(st, i) ==
  [st EXCEPT !.canceled[i] = TRUE,
             !.outcome[i] = settle(st.outcome[i], "canceled")]

Cancel(i) ==
  /\ phase[i] # "none"
  /\ LET st == cancel(Cur, i)
     IN /\ running' = st.running
        /\ idSeq' = st.idSeq
        /\ q' = st.q
        /\ canceled' = st.canceled
        /\ phase' = st.phase
        /\ work' = st.work
        /\ outcome' = st.outcome
  /\ cancelAt' = [cancelAt EXCEPT ![i] =
                    IF cancelAt[i] = "never" THEN stage(phase[i])
                    ELSE cancelAt[i]]
  /\ UNCHANGED <<aux, concurrency, agingMs, started, invoked>>

\* first job of the chain: .then(() => item.run())
InvokeRun(i) ==
  /\ phase[i] = "dispatched"
  /\ phase' = [phase EXCEPT ![i] = "running"]
  /\ invoked' = [invoked EXCEPT ![i] = invoked[i] + 1]
  /\ UNCHANGED <<aux, concurrency, agingMs, running, idSeq, q, canceled, work,
                 outcome, started, cancelAt>>

\* the work unit ends: its promise fulfils (r = "ok") or rejects (r = "fail")
Complete(i, r) ==
  /\ phase[i] = "running"
  /\ phase' = [phase EXCEPT ![i] = "completed"]
  /\ work' = [work EXCEPT ![i] = r]
  /\ UNCHANGED <<aux, concurrency, agingMs, running, idSeq, q, canceled,
                 outcome, started, invoked, cancelAt>>

\* .then(item.resolve, item.reject)
SettleResult(i) ==
  /\ phase[i] = "completed"
  /\ phase' = [phase EXCEPT ![i] = "settled"]
  /\ outcome' = [outcome EXCEPT ![i] =
                   settle(outcome[i], resultOf(work[i]))]
  /\ UNCHANGED <<aux, concurrency, agingMs, running, idSeq, q, canceled, work,
                 started, invoked, cancelAt>>

\* a chain whose last job pumps without running -= 1
FinallyKeepSlot(i) ==
  /\ phase[i] = "settled"
  /\ LET res == pump(q, running, concurrency, agingMs, canceled)
     IN ApplyPump(res, [phase EXCEPT ![i] = "done"])
  /\ UNCHANGED <<aux, concurrency, agingMs, idSeq, canceled, work, outcome,
                 invoked, cancelAt>>

\* a chain whose last job gives the slot back but does not pump again when
\* the work unit failed
FinallyHalt(i) ==
  /\ phase[i] = "settled"
  /\ LET res == IF work[i] = "fail"
                THEN [q |-> q, running |-> running - 1, disp |-> <<>>,
                      drop |-> {}]
                ELSE pump(q, running - 1, concurrency, agingMs, canceled)
     IN ApplyPump(res, [phase EXCEPT ![i] = "done"])
  /\ UNCHANGED <<aux, concurrency, agingMs, idSeq, canceled, work, outcome,
                 invoked, cancelAt>>

\* a chain whose last job takes two off the running count
FinallyTwice(i) ==
  /\ phase[i] = "settled"
  /\ LET res == pump(q, running - 2, concurrency, agingMs, canceled)
     IN ApplyPump(res, [phase EXCEPT ![i] = "done"])
  /\ UNCHANGED <<aux, concurrency, agingMs, idSeq, canceled, work, outcome,
                 invoked, cancelAt>>

\* .finally(() => { running -= 1; pump(); })
Finally(i) ==
  /\ phase[i] = "settled"
  /\ LET res == pump(q, running - 1, concurrency, agingMs, canceled)
     IN ApplyPump(res, [phase EXCEPT ![i] = "done"])
  /\ UNCHANGED <<aux, concurrency, agingMs, idSeq, canceled, work, outcome,
                 invoked, cancelAt>>

\* stats that leaves out the records already canceled
statsLive(st) ==
  [queued |-> Cardinality({k \in 1..Len(st.q) : ~st.canceled[st.q[k].id]}),
   running |-> st.running]

\* stats: () => ({ queued: q.length, running }), the object returned
stats(st) == [queued |-> Len(st.q), running |-> st.running]

\* a call of stats(): it builds the object and writes nothing
Stats ==
  /\ stats(Cur) \in [queued : Nat, running : Nat]
  /\ UNCHANGED vars

\* longest wait that is told apart: from there on every score is 0
maxWait(aging) == PriorityLow * aging

\* the wall clock advances by one unit: every pending record has waited one
\* unit more
Tick ==
  /\ q' = [k \in 1..Len(q) |->
             [q[k] EXCEPT !.waited = Min(q[k].waited + 1, maxWait(agingMs))]]
  /\ UNCHANGED <<aux, concurrency, agingMs, running, idSeq, canceled, phase,
                 work, outcome, started, invoked, cancelAt>>

Next ==
  \/ \E p \in Priority : Enqueue(p)
  \/ \E i \in Ids : Cancel(i)
  \/ \E i \in Ids : InvokeRun(i)
  \/ \E i \in Ids, r \in {"ok", "fail"} : Complete(i, r)
  \/ \E i \in Ids : SettleResult(i)
  \/ \E i \in Ids : Finally(i)
  \/ Stats
  \/ Tick

Spec == Init /\ [][Next]_vars

\* ------------------------------------------------- arrivals without end
\* LiveSpec lets enqueue() be called for ever in a finite state space: once
\* a task's chain has ended (done) or pump dropped its record, the caller
\* lets go of the handle (Release) and the id names the next record
\* enqueued; idSeq is then the smallest id not in use.  cancel() is not
\* called in these runs: the property is about records never canceled.
FreeIds(ph) == {i \in Ids : ph[i] = "none"}

nextFree(F) ==
  IF F = {} THEN MaxTasks + 1 ELSE CHOOSE i \in F : \A j \in F : i <= j

EnqueueLive(p) == EnqueueStep(p, nextFree(FreeIds(phase) \ {idSeq}))

Release(i) ==
  /\ phase[i] \in {"done", "dropped"}
  /\ phase' = [phase EXCEPT ![i] = "none"]
  /\ work' = [work EXCEPT ![i] = "none"]
  /\ outcome' = [outcome EXCEPT ![i] = "none"]
  /\ canceled' = [canceled EXCEPT ![i] = FALSE]
  /\ started' = [started EXCEPT ![i] = 0]
  /\ invoked' = [invoked EXCEPT ![i] = 0]
  /\ cancelAt' = [cancelAt EXCEPT ![i] = "never"]
  /\ idSeq' = nextFree(FreeIds(phase) \cup {i})
  /\ UNCHANGED <<aux, concurrency, agingMs, running, q>>

\* a job of the promise chain of some dispatched record
Job ==
  \E i \in Ids :
    \/ InvokeRun(i)
    \/ \E r \in {"ok", "fail"} : Complete(i, r)
    \/ SettleResult(i)
    \/ Finally(i)

LiveNext ==
  \/ \E p \in Priority : EnqueueLive(p)
  \/ \E i \in Ids : Release(i)
  \/ Job
  \/ Tick

\* the job queue runs the jobs it holds, every work unit ends, and the
\* clock keeps advancing
LiveSpec == Init /\ [][LiveNext]_vars /\ WF_vars(Job) /\ WF_vars(Tick)

\* ------------------------------------------------- finitely many arrivals
\* QuietSpec is Spec (at most MaxTasks enqueue calls, cancel() calls and
\* clock ticks at any time) with the job queue running the jobs it holds and
\* every work unit ending.  Nothing obliges the callers to call enqueue or
\* cancel.
QuietSpec == Init /\ [][Next]_vars /\ WF_vars(Job)

\* ------------------------------------------------ the pending array alone
\* PickSpec follows what pickNextIndex reads and nothing else: the pending
\* array, the waits of its records and agingMs.  The array changes in three
\* ways only: enqueue pushes a record (Arrive), time passes (Tick), and a
\* pump iteration splices out the record pickNextIndex returned (PickStep),
\* be it to start it or to drop it as canceled.  Arrivals, clock ticks and
\* selections come in any order, which covers every concurrency limit and
\* every way work units end.
PickInit ==
  /\ concurrency = DefaultConcurrency
  /\ agingMs \in 1..MaxAging
  /\ running = 0
  /\ idSeq = 1
  /\ q = <<>>
  /\ canceled = [i \in Ids |-> FALSE]
  /\ phase = [i \in Ids |-> "none"]
  /\ work = [i \in Ids |-> "none"]
  /\ outcome = [i \in Ids |-> "none"]
  /\ started = [i \in Ids |-> 0]
  /\ invoked = [i \in Ids |-> 0]
  /\ cancelAt = [i \in Ids |-> "never"]
  /\ picked = <<>>
  /\ clock = 0
  /\ left = [i \in Ids |-> 0]
  /\ callable = [i \in Ids |-> TRUE]
  /\ other = <<>>

\* enqueue up to q.push(item): const id = idSeq++, enqueuedAt: Date.now()
Arrive(p) ==
  /\ idSeq <= MaxTasks
  /\ q' = Append(q, [id |-> idSeq, priority |-> p, waited |-> 0])
  /\ idSeq' = idSeq + 1
  /\ UNCHANGED <<aux, concurrency, agingMs, running, canceled, phase, work,
                 outcome, started, invoked, cancelAt>>

\* const idx = pickNextIndex(); if (idx === -1) return;
\* const item = q.splice(idx, 1)[0]
PickStep ==
  LET idx == pickNextIndex(q, agingMs)
  IN /\ idx # 0
     /\ q' = splice(q, idx)
     /\ picked' = Append(picked, q[idx])
     /\ UNCHANGED <<clock, left, callable, other, concurrency, agingMs,
                    running, idSeq, canceled, phase, work, outcome, started,
                    invoked, cancelAt>>

PickNext ==
  \/ \E p \in Priority : Arrive(p)
  \/ PickStep
  \/ Tick

PickSpec == PickInit /\ [][PickNext]_vars

\* ---------------------------------------------------------------- main()
\* DemoSpec is the demo script of lines 104-146 with its timers.  Here one
\* clock unit is 10 ms.  DemoJobs lists the enqueue calls in the order they
\* are made: at is the time of the call, ms the job's sleep, priority its
\* class.  L1, L2, N1 are enqueued by main() itself, H1 by the setTimeout of
\* 40 ms and HB1..HB5 by the setInterval of 60 ms.
DemoConcurrency == 2
DemoAgingMs == 15
DemoKeepAlive == 120       \* await sleep(1200)

DemoJobs ==
  << [at |-> 0, ms |-> 25, priority |-> PriorityLow],
     [at |-> 0, ms |-> 25, priority |-> PriorityLow],
     [at |-> 0, ms |-> 15, priority |-> PriorityNormal],
     [at |-> 4, ms |-> 8, priority |-> PriorityHigh],
     [at |-> 6, ms |-> 4, priority |-> PriorityHigh],
     [at |-> 12, ms |-> 4, priority |-> PriorityHigh],
     [at |-> 18, ms |-> 4, priority |-> PriorityHigh],
     [at |-> 24, ms |-> 4, priority |-> PriorityHigh],
     [at |-> 30, ms |-> 4, priority |-> PriorityHigh] >>

DemoIds == 1..Len(DemoJobs)

DemoInit ==
  /\ concurrency = DemoConcurrency
  /\ agingMs = DemoAgingMs
  /\ running = 0
  /\ idSeq = 1
  /\ q = <<>>
  /\ canceled = [i \in DemoIds |-> FALSE]
  /\ phase = [i \in DemoIds |-> "none"]
  /\ work = [i \in DemoIds |-> "none"]
  /\ outcome = [i \in DemoIds |-> "none"]
  /\ started = [i \in DemoIds |-> 0]
  /\ invoked = [i \in DemoIds |-> 0]
  /\ cancelAt = [i \in DemoIds |-> "never"]
  /\ picked = <<>>
  /\ clock = 0
  /\ left = [i \in DemoIds |-> 0]
  /\ callable = [i \in DemoIds |-> TRUE]
  /\ other = <<>>

\* a job of some promise chain waits in the job queue; timer callbacks run
\* only when that queue is empty
jobQueued == \E i \in DemoIds : phase[i] \in {"dispatched", "completed", "settled"}

\* the next enqueue call of the script is due
enqueueDue == idSeq \in DemoIds /\ DemoJobs[idSeq].at <= clock

\* main() has not yet made its own enqueue calls: no job runs before that
inMain == idSeq \in DemoIds /\ DemoJobs[idSeq].at = 0

DemoEnqueue ==
  /\ enqueueDue
  /\ inMain \/ ~jobQueued
  /\ enqueue(DemoJobs[idSeq].priority, idSeq + 1)

\* .then(() => item.run()): the job starts its sleep(ms)
DemoInvokeRun(i) ==
  /\ ~inMain
  /\ phase[i] = "dispatched"
  /\ phase' = [phase EXCEPT ![i] = "running"]
  /\ invoked' = [invoked EXCEPT ![i] = invoked[i] + 1]
  /\ left' = [left EXCEPT ![i] = DemoJobs[i].ms]
  /\ UNCHANGED <<picked, clock, callable, other, concurrency, agingMs,
                 running, idSeq, q, canceled, work, outcome, started,
                 cancelAt>>

\* the timer of sleep(ms) fires and the job returns its name
DemoComplete(i) ==
  /\ ~jobQueued
  /\ left[i] = 0
  /\ Complete(i, "ok")

\* 10 ms pass with nothing due
DemoTick ==
  /\ ~jobQueued
  /\ ~enqueueDue
  /\ \A i \in DemoIds : phase[i] = "running" => left[i] > 0
  /\ clock < DemoKeepAlive
  /\ clock' = clock + 1
  /\ left' = [i \in DemoIds |->
                IF phase[i] = "running" THEN left[i] - 1 ELSE left[i]]
  /\ q' = [k \in 1..Len(q) |->
             [q[k] EXCEPT !.waited = Min(q[k].waited + 1, maxWait(agingMs))]]
  /\ UNCHANGED <<picked, callable, other, concurrency, agingMs, running,
                 idSeq, canceled, phase, work, outcome, started, invoked,
                 cancelAt>>

DemoNext ==
  \/ DemoEnqueue
  \/ \E i \in DemoIds : DemoInvokeRun(i)
  \/ \E i \in DemoIds : DemoComplete(i)
  \/ \E i \in DemoIds : SettleResult(i)
  \/ \E i \in DemoIds : Finally(i)
  \/ DemoTick

DemoSpec == DemoInit /\ [][DemoNext]_vars

\* ------------------------------------------------- options and work units
\* ConfigSpec gives createTaskQueue a concurrency option that need not be a
\* positive integer and gives enqueue work units that need not be functions:
\* callable[i] tells whether the `run` of the i-th enqueue call is one.
\* Neither createTaskQueue nor enqueue looks at these values; a `run` that
\* is not a function makes item.run() throw a TypeError inside the first job
\* of the chain.  No cancel() and no clock tick occur in these runs.
ConfigLimits == {-1, 0} \cup (1..DefaultConcurrency)

ConfigInit ==
  /\ concurrency \in ConfigLimits
  /\ agingMs = DefaultAgingMs
  /\ running = 0
  /\ idSeq = 1
  /\ q = <<>>
  /\ canceled = [i \in Ids |-> FALSE]
  /\ phase = [i \in Ids |-> "none"]
  /\ work = [i \in Ids |-> "none"]
  /\ outcome = [i \in Ids |-> "none"]
  /\ started = [i \in Ids |-> 0]
  /\ invoked = [i \in Ids |-> 0]
  /\ cancelAt = [i \in Ids |-> "never"]
  /\ picked = <<>>
  /\ clock = 0
  /\ left = [i \in Ids |-> 0]
  /\ callable \in [Ids -> BOOLEAN]
  /\ other = <<>>

\* .then(() => item.run()) with a function
ConfigInvokeRun(i) == callable[i] /\ InvokeRun(i)

\* .then(() => item.run()) with something else: the call throws, which
\* rejects the promise the next job reads
ConfigThrow(i) ==
  /\ ~callable[i]
  /\ phase[i] = "dispatched"
  /\ phase' = [phase EXCEPT ![i] = "completed"]
  /\ work' = [work EXCEPT ![i] = "fail"]
  /\ UNCHANGED <<aux, concurrency, agingMs, running, idSeq, q, canceled,
                 outcome, started, invoked, cancelAt>>

ConfigNext ==
  \/ \E p \in Priority : Enqueue(p)
  \/ \E i \in Ids : ConfigInvokeRun(i)
  \/ \E i \in Ids : ConfigThrow(i)
  \/ \E i \in Ids, r \in {"ok", "fail"} : Complete(i, r)
  \/ \E i \in Ids : SettleResult(i)
  \/ \E i \in Ids : Finally(i)

ConfigSpec == ConfigInit /\ [][ConfigNext]_vars

\* ------------------------------------------------------- two instances
\* TwoSpec has two queues made by two createTaskQueue calls.  Every call and
\* every job belongs to one of them: the variables hold the closure state of
\* that instance and `other` holds the closure state of the second one.
\* Switch passes control to the second instance.  At most MaxTasks enqueue
\* calls are made on the two together; the clock does not tick in these runs.
Me ==
  [concurrency |-> concurrency, agingMs |-> agingMs, running |-> running,
   idSeq |-> idSeq, q |-> q, canceled |-> canceled, phase |-> phase,
   work |-> work, outcome |-> outcome, started |-> started,
   invoked |-> invoked, cancelAt |-> cancelAt]

\* createTaskQueue({concurrency: limit}): the closure state it sets up
Fresh(limit) ==
  [concurrency |-> limit, agingMs |-> DefaultAgingMs, running |-> 0,
   idSeq |-> 1, q |-> <<>>, canceled |-> [i \in Ids |-> FALSE],
   phase |-> [i \in Ids |-> "none"], work |-> [i \in Ids |-> "none"],
   outcome |-> [i \in Ids |-> "none"], started |-> [i \in Ids |-> 0],
   invoked |-> [i \in Ids |-> 0], cancelAt |-> [i \in Ids |-> "never"]]

TwoInit ==
  /\ concurrency \in 1..DefaultConcurrency
  /\ agingMs = Fresh(concurrency).agingMs
  /\ running = Fresh(concurrency).running
  /\ idSeq = Fresh(concurrency).idSeq
  /\ q = Fresh(concurrency).q
  /\ canceled = Fresh(concurrency).canceled
  /\ phase = Fresh(concurrency).phase
  /\ work = Fresh(concurrency).work
  /\ outcome = Fresh(concurrency).outcome
  /\ started = Fresh(concurrency).started
  /\ invoked = Fresh(concurrency).invoked
  /\ cancelAt = Fresh(concurrency).cancelAt
  /\ \E limit \in 1..DefaultConcurrency : other = Fresh(limit)
  /\ picked = <<>>
  /\ clock = 0
  /\ left = [i \in Ids |-> 0]
  /\ callable = [i \in Ids |-> TRUE]

\* enqueue with idSeq declared outside createTaskQueue: one counter for
\* both instances
TwoEnqueueSharedSeq(p) ==
  /\ idSeq + other.idSeq < MaxTasks + 2
  /\ LET id == idSeq
         item == [id |-> id, priority |-> p, waited |-> 0]
         res == pump(Append(q, item), running, concurrency, agingMs, canceled)
     IN /\ idSeq' = idSeq + 1
        /\ outcome' = [outcome EXCEPT ![id] = "pending"]
        /\ ApplyPump(res, [phase EXCEPT ![id] = "queued"])
  /\ other' = [other EXCEPT !.idSeq = idSeq + 1]
  /\ UNCHANGED <<picked, clock, left, callable, concurrency, agingMs,
                 canceled, work, invoked, cancelAt>>

\* enqueue on the instance in control
TwoEnqueue(p) ==
  /\ idSeq + other.idSeq < MaxTasks + 2
  /\ enqueue(p, idSeq + 1)

\* the next call or job belongs to the second instance
Switch ==
  /\ other' = Me
  /\ concurrency' = other.concurrency
  /\ agingMs' = other.agingMs
  /\ running' = other.running
  /\ idSeq' = other.idSeq
  /\ q' = other.q
  /\ canceled' = other.canceled
  /\ phase' = other.phase
  /\ work' = other.work
  /\ outcome' = other.outcome
  /\ started' = other.started
  /\ invoked' = other.invoked
  /\ cancelAt' = other.cancelAt
  /\ UNCHANGED <<picked, clock, left, callable>>

TwoNext ==
  \/ \E p \in Priority : TwoEnqueue(p)
  \/ \E i \in Ids : Cancel(i)
  \/ \E i \in Ids : InvokeRun(i)
  \/ \E i \in Ids, r \in {"ok", "fail"} : Complete(i, r)
  \/ \E i \in Ids : SettleResult(i)
  \/ \E i \in Ids : Finally(i)
  \/ Switch

TwoSpec == TwoInit /\ [][TwoNext]_vars

\* ================================================================ claims
Settled == {"fulfilled", "rejected", "canceled"}
Submitted == {i \in Ids : phase[i] # "none"}
InFlight == {"dispatched", "running", "completed"}

\* C1: the running count never exceeds the concurrency limit the queue was
\* created with, whatever enqueue, cancel, completion and clock events occur.
C1_RunningBounded == running <= concurrency

\* a record waits because every slot is taken
C1_Witness == running = concurrency /\ Len(q) > 0

\* C2: a task's result leaves "pending" at most once, for one of fulfilled,
\* rejected, canceled, and a settled result never changes again.
C2_SettleOnce ==
  [][\A i \in Ids :
       /\ outcome'[i] \in {"none", "pending"} \cup Settled
       /\ outcome[i] \in Settled => outcome'[i] = outcome[i]
       /\ outcome[i] = "pending" => outcome'[i] # "none"]_vars

\* a result settled as canceled met the delivery of a failed work unit
C2_Witness ==
  \E i \in Ids : /\ cancelAt[i] = "inflight"
                 /\ phase[i] = "settled"
                 /\ work[i] = "fail"
                 /\ outcome[i] = "canceled"

\* C3: no starvation.  With arrivals that never end, every work unit ending
\* and the clock advancing, a record waiting in the pending array and never
\* canceled is eventually dispatched.
C3_NoStarvation ==
  \A i \in Ids :
    (phase[i] = "queued" /\ ~canceled[i])
      ~> (phase[i] # "queued" \/ canceled[i])

\* a low-priority record aged to score 0 is picked ahead of a high-priority
\* record enqueued after it
C3_Witness ==
  /\ Len(q) >= 2
  /\ q[1].priority = PriorityLow
  /\ ~canceled[q[1].id]
  /\ score(q[1], agingMs) = 0
  /\ q[2].priority = PriorityHigh
  /\ ~canceled[q[2].id]
  /\ pickNextIndex(q, agingMs) = 1

\* C4: a record is dispatched at most once and its work unit is invoked at
\* most once, also after it failed and after later pump passes.
C4_DispatchedOnce ==
  \A i \in Ids : started[i] <= 1 /\ invoked[i] <= started[i]

\* a failed task is done, a pump pass ran after it, and it ran once
C4_Witness ==
  \E i, j \in Ids : /\ i # j
                    /\ phase[i] = "done" /\ work[i] = "fail"
                    /\ invoked[i] = 1
                    /\ phase[j] = "done"

\* C5: a task canceled while in the pending array is never dispatched, its
\* work unit is never invoked, its result is canceled, and it takes no slot.
C5_CancelPending ==
  \A i \in Ids :
    cancelAt[i] = "pending" =>
      /\ started[i] = 0
      /\ invoked[i] = 0
      /\ outcome[i] = "canceled"
      /\ phase[i] \in {"queued", "dropped"}

\* a pump pass met a record canceled while pending and dropped it
C5_Witness ==
  \E i \in Ids : cancelAt[i] = "pending" /\ phase[i] = "dropped"

\* C6 (as claimed): once the cancellation flag is set before the work unit
\* was invoked, the work unit is not invoked at any later time.
C6_NeverRunsOnceCanceled ==
  [][\A i \in Ids :
       (canceled[i] /\ invoked[i] = 0) => invoked'[i] = 0]_vars

\* C7: cancel() on a dispatched task whose result is not yet delivered leaves
\* the work unit and its slot alone and makes the result canceled, whatever
\* the work unit returns or throws afterwards.
C7_CancelRunning ==
  /\ \A i \in Ids : cancelAt[i] = "inflight" => outcome[i] = "canceled"
  /\ \A i \in Ids :
       phase[i] \in InFlight =>
         LET st == cancel(Cur, i)
         IN /\ st.outcome[i] = "canceled"
            /\ st.phase = phase /\ st.work = work
            /\ st.running = running /\ st.q = q

\* a task canceled in flight whose work unit still ran to a successful end
C7_Witness ==
  \E i \in Ids : /\ cancelAt[i] = "inflight"
                 /\ phase[i] = "done"
                 /\ work[i] = "ok"
                 /\ invoked[i] = 1
                 /\ outcome[i] = "canceled"

\* C8 (as claimed): cancel() on a task whose work unit is running has no
\* effect on its outcome, so that the final outcome is the work unit's value
\* or failure as if cancel() had not been called.
C8_NoEffectWhenRunning ==
  [][\A i \in Ids :
       (phase[i] = "running" /\ ~canceled[i] /\ canceled'[i]) =>
         outcome'[i] = outcome[i]]_vars

\* C8 (amended): the final outcome of a dispatched task is the work unit's
\* value or failure unless cancel() was called before the result was
\* delivered, in which case it is canceled; cancel() after the delivery has
\* no effect on it.
C8_OutcomeByCancelStage ==
  \A i \in Ids :
    phase[i] \in {"settled", "done"} =>
      outcome[i] = IF cancelAt[i] = "inflight" THEN "canceled"
                   ELSE resultOf(work[i])

\* one task canceled after its value was delivered, one canceled in flight
C8_Witness ==
  \E i, j \in Ids : /\ cancelAt[i] = "settled"
                    /\ outcome[i] = "fulfilled"
                    /\ cancelAt[j] = "inflight"
                    /\ phase[j] = "done" /\ work[j] = "ok"
                    /\ outcome[j] = "canceled"

\* C9: cancel() on a task whose result is settled leaves the outcome, the
\* pending array and the running count as they were.
C9_CancelSettled ==
  \A i \in Submitted :
    outcome[i] \in Settled =>
      LET st == cancel(Cur, i)
      IN /\ st.outcome = outcome
         /\ st.q = q
         /\ st.running = running

\* cancel() was called on a rejected task whose slot is not yet given back,
\* while a record canceled earlier still sits in the pending array
C9_Witness ==
  \E i, j \in Ids : /\ cancelAt[i] = "settled"
                    /\ phase[i] = "settled"
                    /\ outcome[i] = "rejected"
                    /\ phase[j] = "queued" /\ outcome[j] = "canceled"

\* C10: cancel() called again on a task, in any lifecycle state, leaves the
\* scheduler state and the task's outcome as the first call left them.
C10_CancelIdempotent ==
  \A i \in Submitted :
    LET once == cancel(Cur, i)
    IN cancel(once, i) = once

\* cancel() has acted on a queued, a running and a delivered task
C10_Witness ==
  \E i, j, k \in Ids : /\ cancelAt[i] = "pending" /\ phase[i] = "queued"
                       /\ cancelAt[j] = "inflight" /\ phase[j] = "running"
                       /\ cancelAt[k] = "settled"

\* C11: cancel() on a task in the pending array settles its result to
\* canceled in that very step, with the record still in the array and no
\* slot freed; that outcome is the cancel signal, not a work-unit failure.
C11_CancelSettlesAtOnce ==
  [][\A i \in Ids :
       (phase[i] = "queued" /\ ~canceled[i] /\ canceled'[i]) =>
         /\ outcome[i] = "pending"
         /\ outcome'[i] = "canceled"
         /\ outcome'[i] # resultOf("fail")
         /\ phase'[i] = "queued"
         /\ q' = q /\ running' = running]_vars

\* a task canceled in the pending array is settled while every slot is still
\* taken and its record still waits for a pump pass
C11_Witness ==
  \E i \in Ids : /\ cancelAt[i] = "pending"
                 /\ outcome[i] = "canceled"
                 /\ \E k \in 1..Len(q) : q[k].id = i
                 /\ running = concurrency
                 /\ \A j \in Ids : phase[j] \notin {"settled", "done"}

\* C12: a task that is never canceled and whose work unit ended has its
\* result pending until the chain delivers, then fulfilled if the work unit
\* returned and rejected if it failed, and nothing else.
C12_ResultVerbatim ==
  \A i \in Ids :
    (~canceled[i] /\ work[i] # "none") =>
      /\ phase[i] = "completed" => outcome[i] = "pending"
      /\ (phase[i] \in {"settled", "done"} /\ work[i] = "ok")
           => outcome[i] = "fulfilled"
      /\ (phase[i] \in {"settled", "done"} /\ work[i] = "fail")
           => outcome[i] = "rejected"

\* one task fulfilled and one rejected, none canceled
C12_Witness ==
  /\ \A i \in Ids : ~canceled[i]
  /\ \E i, j \in Ids : /\ phase[i] = "done" /\ work[i] = "ok"
                       /\ outcome[i] = "fulfilled"
                       /\ phase[j] = "done" /\ work[j] = "fail"
                       /\ outcome[j] = "rejected"

\* C13: selection returns none (index 0) exactly when the pending array is
\* empty; otherwise it returns a record whose score, computed from the waits
\* at that moment, is minimal over the array, and every record enqueued
\* before it (smaller index, smaller id) has a strictly greater score.
C13_Selection ==
  LET idx == pickNextIndex(q, agingMs)
  IN /\ idx = 0 <=> Len(q) = 0
     /\ idx \in 0..Len(q)
     /\ idx # 0 =>
          \A k \in 1..Len(q) :
            /\ score(q[idx], agingMs) <= score(q[k], agingMs)
            /\ score(q[k], agingMs) = score(q[idx], agingMs)
                 => (idx <= k /\ q[idx].id <= q[k].id)

\* three records have waited: the first has the worst score although it
\* has aged by one class, the other two tie for the best and the earlier of
\* them is returned
C13_Witness ==
  /\ Len(q) = 3
  /\ q[3].waited > 0
  /\ score(q[1], agingMs) < q[1].priority
  /\ score(q[1], agingMs) > score(q[2], agingMs)
  /\ score(q[2], agingMs) = score(q[3], agingMs)
  /\ pickNextIndex(q, agingMs) = 2

\* C14: for priority p, wait w and aging window a the score is
\* max(0, p - n) where n is the number of whole windows in w; it lies in 0..p.
C14_ScoreFormula ==
  \A k \in 1..Len(q), p \in 0..MaxPriority :
    LET w == q[k].waited
        a == agingMs
        s == score([q[k] EXCEPT !.priority = p], a)
    IN /\ 0 <= s /\ s <= p
       /\ \E n \in 0..w : /\ n * a <= w /\ w < (n + 1) * a
                          /\ s = IF p - n > 0 THEN p - n ELSE 0

\* a record whose boost exceeds its priority (the clamp acts) next to one
\* whose wait is not a whole number of windows (the floor acts)
C14_Witness ==
  \E k, m \in 1..Len(q) :
    /\ q[k].priority = PriorityNormal /\ q[k].waited >= 2 * agingMs
    /\ q[m].waited > agingMs /\ q[m].waited % agingMs # 0
    /\ score(q[m], agingMs) = q[m].priority - 1

\* C15: as long as a record stays in the pending array its wait does not
\* shrink and its score does not grow from one step to the next.
C15_MonotonicAging ==
  [][\A k \in 1..Len(q), m \in 1..Len(q') :
       q[k].id = q'[m].id =>
         /\ q'[m].waited >= q[k].waited
         /\ score(q'[m], agingMs) <= score(q[k], agingMs)]_vars

\* a low-priority record that has aged by one class but not yet to the top
C15_Witness ==
  \E k \in 1..Len(q) :
    /\ q[k].priority = PriorityLow
    /\ q[k].waited > 0
    /\ score(q[k], agingMs) = PriorityNormal

\* C16: a record that has waited at least as many aging windows as its
\* priority has score 0; when it and a top-priority record enqueued after it
\* are both pending, selection does not return the later one, and returns
\* the aged record if no record before it has score 0 as well.
C16_AgedTiesTop ==
  /\ \A k \in 1..Len(q) :
       q[k].waited >= q[k].priority * agingMs => score(q[k], agingMs) = 0
  /\ \A k, m \in 1..Len(q) :
       (/\ k < m
        /\ q[k].waited >= q[k].priority * agingMs
        /\ q[m].priority = PriorityHigh)
         => /\ pickNextIndex(q, agingMs) <= k
            /\ (\A j \in 1..(k - 1) : score(q[j], agingMs) > 0)
                 => pickNextIndex(q, agingMs) = k

\* a low-priority record that waited two windows is returned ahead of a
\* normal-priority record still at score 1 and of a top-priority record that
\* was just enqueued
C16_Witness ==
  /\ Len(q) = 3
  /\ q[1].priority = PriorityLow /\ q[1].waited = 2 * agingMs
  /\ q[2].priority = PriorityNormal /\ score(q[2], agingMs) = 1
  /\ q[3].priority = PriorityHigh /\ q[3].waited = 0
  /\ pickNextIndex(q, agingMs) = 1

\* C17: records of one priority class leave the pending array in the order
\* they were enqueued: a record spliced out has a smaller id than every
\* record of its class still pending or spliced out after it.
C17_FifoWithinTier ==
  \A m \in 1..Len(picked) :
    /\ \A k \in 1..Len(q) :
         q[k].priority = picked[m].priority => picked[m].id < q[k].id
    /\ \A n \in (m + 1)..Len(picked) :
         picked[n].priority = picked[m].priority => picked[m].id < picked[n].id

\* three records of one class were selected in submission order, the last
\* two after they had aged
C17_Witness ==
  /\ Len(picked) = 3
  /\ \A m \in 1..3 : picked[m].id = m /\ picked[m].priority = PriorityLow
  /\ picked[2].waited > 0 /\ picked[3].waited > picked[2].waited

\* C18: in the demo, L1 and L2 are dispatched by their own enqueue call and
\* fill both slots; N1 stays in the pending array, and so does H1 once it is
\* enqueued at 40 ms, until L1 or L2 gives its slot back.
C18_DemoLowsFillSlots ==
  /\ idSeq > 1 => started[1] = 1
  /\ idSeq > 2 => started[2] = 1
  /\ (phase[1] # "done" /\ phase[2] # "done") =>
       /\ idSeq > 2 => running = 2
       /\ idSeq > 3 => phase[3] = "queued"
       /\ idSeq > 4 => (phase[4] = "queued" /\ clock >= 4)

\* 240 ms into the demo: both lows still run, N1 and H1 still wait
C18_Witness ==
  /\ clock = 24
  /\ phase[1] = "running" /\ phase[2] = "running"
  /\ running = 2
  /\ phase[3] = "queued" /\ phase[4] = "queued"

\* C19 (as claimed): in the demo, when a slot frees, H1 is dispatched before
\* N1: N1 is never dispatched while H1 still waits.
C19_DemoHighBeforeNormal ==
  started[3] = 1 => started[4] = 1

\* C20: a failing work unit touches its own task only.  The step in which it
\* fails and the step that delivers the failure change no other task, the
\* pending array or the running count; the delivery rejects that task's
\* result unless it was canceled before.  The last job of its chain gives
\* the slot back, changes no other result or flag, takes out of the pending
\* array only records it dispatches or that were canceled, and dispatches a
\* pending record if one is not canceled.
C20_FailureIsolation ==
  [][\A i \in Ids :
       LET others == \A j \in Ids \ {i} :
                       /\ outcome'[j] = outcome[j]
                       /\ canceled'[j] = canceled[j]
                       /\ work'[j] = work[j]
           newly == {j \in Ids : phase[j] = "queued" /\ phase'[j] = "dispatched"}
       IN /\ (work[i] = "none" /\ work'[i] = "fail") =>
               /\ others /\ outcome'[i] = outcome[i]
               /\ q' = q /\ running' = running
          /\ (work[i] = "fail" /\ phase[i] = "completed" /\ phase'[i] = "settled") =>
               /\ others
               /\ outcome'[i] = IF outcome[i] = "pending" THEN "rejected"
                                ELSE outcome[i]
               /\ \A j \in Ids \ {i} : phase'[j] = phase[j]
               /\ q' = q /\ running' = running
          /\ (work[i] = "fail" /\ phase[i] = "settled" /\ phase'[i] = "done") =>
               /\ others /\ outcome'[i] = outcome[i]
               /\ running' = running - 1 + Cardinality(newly)
               /\ \A k \in 1..Len(q) :
                    phase'[q[k].id] \in {"queued", "dispatched"}
                      \/ canceled[q[k].id]
               /\ (\E k \in 1..Len(q) : ~canceled[q[k].id]) => newly # {}]_vars

\* under concurrency limit 1 the first task failed and was rejected; a task
\* that waited behind it has since run and been fulfilled, another is being
\* dispatched, and none was canceled
C20_Witness ==
  /\ concurrency = 1
  /\ \A i \in Ids : ~canceled[i]
  /\ phase[1] = "done" /\ work[1] = "fail" /\ outcome[1] = "rejected"
  /\ \E j, k \in Ids : /\ phase[j] = "done" /\ outcome[j] = "fulfilled"
                       /\ phase[k] \in InFlight /\ outcome[k] = "pending"

\* records that hold a slot: dispatched and not yet through their finally
Occupying(ph) == {i \in Ids : ph[i] \in InFlight \cup {"settled"}}

\* records pump dispatches in this step
Newly == {j \in Ids : phase[j] = "queued" /\ phase'[j] = "dispatched"}

\* C22 (as claimed): every record in the pending array has a pending result
\* and was not dispatched; none is settled, not even as canceled.
C22_PendingOnly ==
  \A k \in 1..Len(q) :
    /\ phase[q[k].id] = "queued"
    /\ started[q[k].id] = 0
    /\ outcome[q[k].id] = "pending"

\* C22 (amended): no record in the pending array was dispatched, none is
\* fulfilled or rejected, and each id occurs once; a record's result is
\* pending, or canceled exactly when its flag is set by a cancel() made
\* while it was pending.  The records not in the array are not "queued".
C22_PendingOrCanceled ==
  /\ \A k \in 1..Len(q) :
       /\ phase[q[k].id] = "queued"
       /\ started[q[k].id] = 0 /\ invoked[q[k].id] = 0
       /\ outcome[q[k].id] \in {"pending", "canceled"}
       /\ outcome[q[k].id] = "canceled" <=> canceled[q[k].id]
       /\ canceled[q[k].id] => cancelAt[q[k].id] = "pending"
       /\ \A m \in 1..Len(q) : q[m].id = q[k].id => m = k
  /\ \A i \in Ids : phase[i] = "queued" => \E k \in 1..Len(q) : q[k].id = i

\* while the only slot is taken, the pending array holds a record already
\* settled as canceled in front of one whose result is pending
C22_Witness ==
  /\ Len(q) = 2
  /\ running = concurrency
  /\ canceled[q[1].id] /\ outcome[q[1].id] = "canceled"
  /\ ~canceled[q[2].id] /\ outcome[q[2].id] = "pending"

\* C25: ids are unique and strictly increasing in submission order: a call
\* of enqueue gives the new task the id idSeq, greater than the id of every
\* task submitted before (canceled and settled ones included), and leaves
\* idSeq one higher.
C25_IdsIncrease ==
  [][\A i \in Ids :
       (phase[i] = "none" /\ phase'[i] # "none") =>
         /\ i = idSeq /\ idSeq' = i + 1
         /\ \A j \in Ids : phase[j] # "none" => j < i
         /\ \A k \in 1..Len(q) : q[k].id < i
         /\ \A j \in Ids \ {i} : phase[j] = "none" => phase'[j] = "none"]_vars

\* a third id was given out after the first task was canceled and dropped
\* and the second was settled
C25_Witness ==
  /\ idSeq = 4
  /\ \E i, j \in Ids : /\ i < j /\ j < 3
                       /\ outcome[i] = "canceled"
                       /\ outcome[j] \in {"fulfilled", "rejected"}
                       /\ phase[3] # "none"

\* what a pump call leaves when it finds nothing to do
pumpNothing(qq, r) == [q |-> qq, running |-> r, disp |-> <<>>, drop |-> {}]

\* pump() called again right after the pump call that returned res
pumpAgain(res) == pump(res.q, res.running, concurrency, agingMs, canceled)

\* C26: pump() called right after a pump() dispatches nothing, drops nothing
\* and leaves the pending array and the running count as they are.  This is
\* so after the pump of every enqueue and of every finally, and an extra
\* pump() between two operations does nothing either, so it never exceeds
\* the limit.
C26_PumpIdempotent ==
  /\ pump(q, running, concurrency, agingMs, canceled) = pumpNothing(q, running)
  /\ (\E i \in Ids : phase[i] = "settled") =>
       LET res == pump(q, running - 1, concurrency, agingMs, canceled)
       IN /\ pumpAgain(res) = pumpNothing(res.q, res.running)
          /\ res.running <= concurrency
  /\ idSeq <= MaxTasks =>
       \A p \in Priority :
         LET item == [id |-> idSeq, priority |-> p, waited |-> 0]
             res == pump(Append(q, item), running, concurrency, agingMs,
                         canceled)
         IN /\ pumpAgain(res) = pumpNothing(res.q, res.running)
            /\ res.running <= concurrency

\* the only slot is about to be given back while two records wait, neither
\* canceled: the pump of that finally dispatches one, a second pump none
C26_Witness ==
  /\ concurrency = 1
  /\ \E i \in Ids : phase[i] = "settled"
  /\ Len(q) = 2 /\ ~canceled[q[1].id] /\ ~canceled[q[2].id]
  /\ Len(pump(q, running - 1, concurrency, agingMs, canceled).disp) = 1

\* C28: the last job of every chain, after success and after failure alike,
\* takes one off the running count and pumps in the same step: a pending
\* record that is not canceled is dispatched at once into the freed slot.
\* The running count goes down in no other step and counts the records
\* between dispatch and that job.
C28_ReleaseAndPump ==
  [][/\ \A i \in Ids :
          (phase[i] = "settled" /\ phase'[i] = "done") =>
            /\ work[i] \in {"ok", "fail"}
            /\ running' = running - 1 + Cardinality(Newly)
            /\ Cardinality(Newly) =
                 IF \E k \in 1..Len(q) : ~canceled[q[k].id] THEN 1 ELSE 0
            /\ running' = Cardinality(Occupying(phase'))
     /\ running' < running =>
          \E i \in Ids : phase[i] = "settled" /\ phase'[i] = "done"]_vars

\* under limit 1 a task succeeded, and the step that gave its slot back
\* dispatched one of the two records waiting behind it
C28_Witness ==
  /\ concurrency = 1 /\ running = 1
  /\ \E i, j, k \in Ids : /\ phase[i] = "done" /\ work[i] = "ok"
                          /\ phase[j] = "dispatched"
                          /\ phase[k] = "queued" /\ ~canceled[k]

\* C29: a record pump selects with its canceled flag set leaves the pending
\* array without being started or invoked and without counting as running,
\* and the same pass goes on to dispatch a pending record that is not
\* canceled.  A dropped record is never started later.
C29_SkipCanceled ==
  [][/\ \A i \in Ids :
          (phase[i] = "queued" /\ phase'[i] = "dropped") =>
            /\ canceled[i] /\ outcome'[i] = "canceled"
            /\ started'[i] = 0 /\ invoked'[i] = 0
            /\ \A k \in 1..Len(q') : q'[k].id # i
            /\ running' = Cardinality(Occupying(phase'))
            /\ running' <= running
            /\ (\E k \in 1..Len(q) : ~canceled[q[k].id]) => Newly # {}
     /\ \A i \in Ids :
          phase[i] = "dropped" =>
            /\ phase'[i] = "dropped"
            /\ started'[i] = 0 /\ invoked'[i] = 0]_vars

\* under limit 1, the pass that followed the first task dropped a canceled
\* record and dispatched the other one
C29_Witness ==
  /\ concurrency = 1 /\ running = 1
  /\ phase[1] = "done"
  /\ \E i, j \in Ids : /\ phase[i] = "dropped" /\ cancelAt[i] = "pending"
                       /\ phase[j] = "dispatched"

\* C30: work conservation.  Between operations, a non-empty pending array
\* means that every slot is taken (the limit is at least 1 here).
C30_WorkConserving ==
  (concurrency >= 1 /\ Len(q) > 0) => running = concurrency

\* after a task failed and another was canceled while pending, the canceled
\* record still waits and every slot is taken
C30_Witness ==
  /\ running = concurrency
  /\ Len(q) > 0
  /\ \E i, j \in Ids : /\ phase[i] = "done" /\ work[i] = "fail"
                       /\ phase[j] = "queued" /\ canceled[j]

\* C23: stats() returns the number of records in the pending array, those
\* already canceled included, and the running count, which are the numbers
\* of tasks waiting and of tasks holding a slot; calling it leaves every
\* variable as it is.
C23_StatsReadOnly ==
  /\ stats(Cur).queued = Len(q)
  /\ stats(Cur).queued = Cardinality({i \in Ids : phase[i] = "queued"})
  /\ stats(Cur).running = running
  /\ stats(Cur).running = Cardinality(Occupying(phase))
  /\ DOMAIN stats(Cur) = {"queued", "running"}
  /\ ENABLED Stats

\* stats() reports two queued records, one of them canceled, and one running
C23_Witness ==
  /\ stats(Cur) = [queued |-> 2, running |-> 1]
  /\ \E k \in 1..Len(q) : canceled[q[k].id]

\* C27 (as claimed): delivering a work unit's result to a promise that is
\* already settled (the task was canceled in flight) raises an error: the
\* chain does not go on as after a first settlement.
C27_FailLoudly ==
  [][\A i \in Ids :
       (phase[i] = "completed" /\ outcome[i] \in Settled /\ phase'[i] # phase[i])
         => phase'[i] = "error"]_vars

\* C21 (as claimed): a queue whose concurrency option is not a positive
\* integer accepts no task, and a task whose work unit is not a function is
\* not accepted: the pending array, the running count and idSeq stay as
\* they were before the call.
C21_ConfigErrorsRejected ==
  /\ concurrency < 1 => (idSeq = 1 /\ q = <<>> /\ running = 0)
  /\ \A i \in Ids :
       ~callable[i] =>
         /\ phase[i] = "none"
         /\ idSeq <= i
         /\ \A k \in 1..Len(q) : q[k].id # i

\* C24: two instances do not interfere.  A step of the instance in control
\* (enqueue, cancel, a job of a chain with its dispatches and settlements)
\* leaves the whole closure state of the second instance, its pending array,
\* running count and idSeq included, as it was; and when control passes to
\* the second instance each of the two finds its state as it left it.
C24_NoInterference ==
  [][\/ other' = other
     \/ (other' = Me /\ Me' = other)]_vars

\* the instance in control holds a canceled record behind a running task
\* and has given out two ids; the second instance has given out one id and
\* runs that task
C24_Witness ==
  /\ idSeq = 3 /\ running = 1
  /\ Len(q) = 1 /\ canceled[q[1].id]
  /\ other.idSeq = 2 /\ other.running = 1 /\ other.q = <<>>
  /\ other.phase[1] = "running"

\* C31: the running count is the number of records that were dispatched and
\* whose chain has not yet run its completion handler (the finally job): it
\* counts a record from its dispatch on, through the call and the end of its
\* work unit and the delivery of the result, and no longer once that handler
\* ran.  It is never negative, and it is the number of dispatches made minus
\* the number of chains ended: one decrement for each dispatched task.
C31_RunningCountsSlots ==
  /\ running = Cardinality(Occupying(phase))
  /\ running >= 0
  /\ running = Cardinality({i \in Ids : started[i] = 1})
                 - Cardinality({i \in Ids : phase[i] = "done"})
  /\ \A i \in Ids : phase[i] = "done" => started[i] = 1

\* one chain has ended, a second has delivered its result and not yet given
\* its slot back, a third record waits: the count is 1
C31_Witness ==
  /\ running = 1
  /\ \E i, j, k \in Ids : /\ phase[i] = "done"
                          /\ phase[j] = "settled"
                          /\ phase[k] = "queued"

\* is a record with id i in the array qq
inPending(qq, i) == \E k \in 1..Len(qq) : qq[k].id = i

\* the place that holds the record of task i: the pending array, a slot
\* (between its dispatch and the finally job of its chain), none any more
\* (dropped), none yet.  "two" stands for a record in the array that is also
\* in a slot, dropped or not yet submitted, "lost" for a record waiting to be
\* dispatched that the array does not hold.
placeOf(qq, ph, i) ==
  IF inPending(qq, i)
  THEN IF ph[i] = "queued" THEN "pending" ELSE "two"
  ELSE IF ph[i] \in InFlight \cup {"settled"} THEN "slot"
  ELSE IF ph[i] \in {"done", "dropped"} THEN "dropped"
  ELSE IF ph[i] = "queued" THEN "lost"
  ELSE "none"

\* the moves of a record from one step to the next: it enters through the
\* pending array (its own enqueue may take it on to a slot in the same
\* step), goes from there to a slot or is dropped, and is dropped from a slot
moves ==
  { <<"none", "none">>, <<"none", "pending">>, <<"none", "slot">>,
    <<"pending", "pending">>, <<"pending", "slot">>, <<"pending", "dropped">>,
    <<"slot", "slot">>, <<"slot", "dropped">>,
    <<"dropped", "dropped">> }

\* C32: ownership partition.  Every submitted record is in exactly one of
\* three places: the pending array (once), a slot, or dropped, and a record
\* not yet submitted is in none.  A record moves only pending -> slot ->
\* dropped, or pending -> dropped when it is canceled; it never moves back.
C32_OwnershipPartition ==
  [][/\ \A k, m \in 1..Len(q') : q'[k].id = q'[m].id => k = m
     /\ \A i \in Ids :
          /\ <<placeOf(q, phase, i), placeOf(q', phase', i)>> \in moves
          /\ (phase[i] = "queued" /\ phase'[i] \in {"done", "dropped"}) =>
               (canceled[i] /\ phase'[i] = "dropped")]_vars

\* the three places at once: a canceled record was dropped from the pending
\* array, a chain has ended, a record holds the only slot and one is pending
C32_Witness ==
  /\ concurrency = 1
  /\ \E i, j \in Ids : /\ placeOf(q, phase, i) = "slot"
                       /\ placeOf(q, phase, j) = "pending"
  /\ \E i \in Ids : placeOf(q, phase, i) = "dropped"

\* the record has waited at least as many aging windows as its priority:
\* its score has reached 0
aged(item, aging) == item.waited >= item.priority * aging

\* C33: once the score of a pending record has reached 0 it stays 0 while
\* the record is pending, and no step dispatches a task submitted after it
\* (greater id), whatever that task's priority, while it stays pending: a
\* step that dispatches a later task finds the aged record canceled and drops
\* it first.  A task dispatched while the aged record stays pending was
\* submitted before it.
C33_AgedBeforeLater ==
  [][\A k \in 1..Len(q) :
       aged(q[k], agingMs) =>
         /\ score(q[k], agingMs) = 0
         /\ \A m \in 1..Len(q') :
              q'[m].id = q[k].id => score(q'[m], agingMs) = 0
         /\ \A j \in Ids :
              (started'[j] > started[j] /\ j > q[k].id) =>
                /\ canceled[q[k].id]
                /\ phase'[q[k].id] = "dropped"
         /\ \A j \in Ids :
              (started'[j] > started[j] /\ inPending(q', q[k].id)) =>
                j < q[k].id]_vars

\* the only slot is about to be given back while a low-priority record aged
\* to score 0 waits in front of a top-priority record submitted after it,
\* neither canceled
C33_Witness ==
  /\ concurrency = 1
  /\ \E i \in Ids : phase[i] = "settled"
  /\ Len(q) = 2
  /\ q[1].priority = PriorityLow /\ aged(q[1], agingMs)
  /\ q[2].priority = PriorityHigh /\ q[2].waited = 0
  /\ ~canceled[q[1].id] /\ ~canceled[q[2].id]

\* C34: canceling a dispatched task does not give its slot back.  cancel()
\* leaves the running count as it is, and the task goes on counting until
\* the completion handler of its own chain runs, so a task whose result is
\* already settled as canceled still takes one unit of the limit and can
\* keep a pending record waiting.
C34_CancelKeepsSlot ==
  \A i \in Ids :
    /\ i \in Occupying(phase) =>
         /\ cancel(Cur, i).running = running
         /\ cancel(Cur, i).outcome[i] \in Settled
         /\ Occupying(cancel(Cur, i).phase) = Occupying(phase)
    /\ (cancelAt[i] = "inflight" /\ phase[i] # "done") =>
         /\ outcome[i] = "canceled"
         /\ i \in Occupying(phase)
         /\ running >= 1
         /\ running = Cardinality(Occupying(phase))
    /\ (cancelAt[i] = "inflight" /\ phase[i] = "done") =>
         /\ work[i] # "none"
         /\ i \notin Occupying(phase)

\* the task holding the only slot was canceled before its work unit was
\* called: its result is canceled, it still counts as running, and a
\* pending record that is not canceled waits behind it
C34_Witness ==
  /\ concurrency = 1 /\ running = 1
  /\ \E i \in Ids : /\ cancelAt[i] = "inflight"
                    /\ phase[i] = "dispatched"
                    /\ outcome[i] = "canceled"
  /\ Len(q) = 1 /\ ~canceled[q[1].id]

\* C35: priority order without aging.  Of two pending records that have
\* each waited less than one aging window, the one with the greater priority
\* value is not selected while the other is pending, whichever was submitted
\* first; when the two are the whole array, the one with the lower value is
\* selected.
C35_PriorityOrder ==
  \A k, m \in 1..Len(q) :
    (/\ q[k].waited < agingMs /\ q[m].waited < agingMs
     /\ q[k].priority < q[m].priority)
      => /\ pickNextIndex(q, agingMs) # m
         /\ Len(q) = 2 => pickNextIndex(q, agingMs) = k

\* after a normal-priority record was selected, a top-priority record
\* submitted after a low-priority one that has waited less than a window is
\* selected ahead of it
C35_Witness ==
  /\ Len(q) = 2
  /\ 0 < q[1].waited /\ q[1].waited < agingMs
  /\ q[1].priority = PriorityLow /\ q[2].priority = PriorityHigh
  /\ pickNextIndex(q, agingMs) = 2
  /\ Len(picked) = 1 /\ picked[1].priority = PriorityNormal

\* C36: the running count changes on the dispatcher path only.  A step
\* changes it by the number of records pump dispatches in that step minus
\* one if the step is the completion handler of a chain; a step that sets a
\* cancellation flag leaves the running count and the pending array as they
\* are, and so does a cancel() call on any submitted task and a stats()
\* call in any state.
C36_RunningOnDispatcherPath ==
  [][/\ running' = running
                    + Cardinality({j \in Ids : started'[j] > started[j]})
                    - Cardinality({j \in Ids : /\ phase[j] = "settled"
                                               /\ phase'[j] = "done"})
     /\ running' > running => \E j \in Ids : started'[j] > started[j]
     /\ running' < running =>
          \E j \in Ids : phase[j] = "settled" /\ phase'[j] = "done"
     /\ canceled' # canceled => (running' = running /\ q' = q)
     /\ \A i \in Submitted :
          \A st \in {cancel(Cur, i)} : st.running = running /\ st.q = q
     /\ Stats => (running' = running /\ q' = q)]_vars

\* cancel() has acted on both running tasks and on the pending record: both
\* slots are still counted and the record is still in the array
C36_Witness ==
  /\ concurrency = 2 /\ running = 2
  /\ Len(q) = 1 /\ cancelAt[q[1].id] = "pending"
  /\ \A i \in Ids : phase[i] # "queued" =>
       (cancelAt[i] = "inflight" /\ phase[i] \in InFlight)

\* C37: the submission step.  enqueue() called with running < concurrency
\* returns with the new record out of the pending array, dispatched, and the
\* running count one higher; called with running = concurrency it returns
\* with the record appended to the pending array, its wait 0, and the
\* running count unchanged.  No work unit is invoked in that step: a work
\* unit is invoked only in a later step, the first job of a chain whose
\* record a previous step dispatched.
C37_SubmissionStep ==
  [][/\ \A i \in Ids :
          (phase[i] = "none" /\ phase'[i] # "none") =>
            /\ invoked' = invoked /\ work' = work
            /\ outcome'[i] = "pending"
            /\ IF running < concurrency
               THEN /\ phase'[i] = "dispatched" /\ started'[i] = 1
                    /\ ~inPending(q', i)
                    /\ running' = running + 1
               ELSE /\ \E p \in Priority :
                         q' = Append(q, [id |-> i, priority |-> p,
                                         waited |-> 0])
                    /\ phase'[i] = "queued" /\ started'[i] = 0
                    /\ running' = running
     /\ \A i \in Ids :
          invoked'[i] > invoked[i] =>
            (phase[i] = "dispatched" /\ started[i] = 1)]_vars

\* under limit 1 the first enqueue has dispatched its record, whose work
\* unit is not yet invoked, and the second has left its record pending
C37_Witness ==
  /\ concurrency = 1 /\ running = 1
  /\ idSeq = 3
  /\ phase[1] = "dispatched" /\ invoked[1] = 0
  /\ phase[2] = "queued" /\ q = <<[id |-> 2, priority |-> PriorityHigh,
                                   waited |-> 0]>>

\* no record pending, no slot taken, every submitted task's result settled
Quiet ==
  /\ q = <<>>
  /\ running = 0
  /\ \A i \in Submitted : outcome[i] \in Settled

\* C38: eventual quiescence.  With a limit of at least 1, finitely many
\* enqueue calls and every dispatched work unit ending, from some moment on
\* the pending array is empty, the running count is 0 and the result of
\* every submitted task is settled.
C38_Quiescence == <>[]Quiet

\* quiescence after all three tasks: one fulfilled, one rejected, and one
\* canceled while pending and dropped by a later pump pass
C38_Witness ==
  /\ Quiet
  /\ idSeq = MaxTasks + 1
  /\ \E i, j, k \in Ids : /\ outcome[i] = "fulfilled" /\ phase[i] = "done"
                          /\ outcome[j] = "rejected" /\ phase[j] = "done"
                          /\ cancelAt[k] = "pending" /\ phase[k] = "dropped"

\* iterations of the while loop in the pump pass that returned res: each one
\* either started a record or dropped a canceled one
iterations(res) == Len(res.disp) + Cardinality(res.drop)

\* C39: every pump() call ends.  Each iteration of its loop that does not
\* return takes one record out of the pending array, so a pass makes at most
\* as many iterations as there are pending records, canceled ones included,
\* and leaves the array shorter by exactly that number; it stops with the
\* array empty or no slot free.  This holds for the pump of a finally job,
\* for the pump of an enqueue call and for a pump() at any other moment.
C39_PumpTerminates ==
  LET bounded(qq, res) ==
        /\ iterations(res) <= Len(qq)
        /\ Len(res.q) = Len(qq) - iterations(res)
        /\ Len(res.disp) <= Max(0, concurrency - running + 1)
        /\ res.q = <<>> \/ ~(res.running < concurrency)
  IN /\ bounded(q, pump(q, running, concurrency, agingMs, canceled))
     /\ (\E i \in Ids : phase[i] = "settled") =>
          bounded(q, pump(q, running - 1, concurrency, agingMs, canceled))
     /\ \A p \in Priority :
          LET item == [id |-> idSeq, priority |-> p, waited |-> 0]
          IN bounded(Append(q, item),
                     pump(Append(q, item), running, concurrency, agingMs,
                          [i \in Ids \cup {idSeq} |->
                             IF i \in Ids THEN canceled[i] ELSE FALSE]))

\* the only slot is about to be given back while the pending array holds two
\* canceled records: the pass of that finally job makes two iterations, both
\* drops, and returns with the array empty
C39_Witness ==
  /\ \E i \in Ids : phase[i] = "settled"
  /\ Len(q) = 2 /\ canceled[q[1].id] /\ canceled[q[2].id]
  /\ LET res == pump(q, running - 1, concurrency, agingMs, canceled)
     IN iterations(res) = 2 /\ res.disp = <<>> /\ res.q = <<>>

====
